---- MODULE Spec2Model ----
(***************************************************************************)
(* A model of the pair-based Fibonacci cache of fibapi: the slot-ring      *)
(* cache (sliceCache), the LRU cache (hashicorpCache) and the tracker      *)
(* (FibTracker) that sits on top of either.                                *)
(*                                                                         *)
(* Indices are unsigned integers of W bits (uint32 in the source, scaled   *)
(* down here); every index computation of the source is taken modulo 2^W.  *)
(* Sequence values are arbitrary-precision integers (math/big), modelled   *)
(* by the unbounded integers of TLA+.  A *big.Int is a pointer: where the  *)
(* source hands out or stores a pointer, the model keeps a reference and   *)
(* not a value.                                                            *)
(***************************************************************************)
EXTENDS Integers, Sequences, FiniteSets, TLC

\* ---- bounds of the model ------------------------------------------------
W == 4                \* width of an index in bits (32 in the source)
MaxN == 3             \* largest cache capacity tried
MaxPad == 4           \* largest cachePad tried
MaxTwinCalls == 3     \* calls made on the pair of trackers
NCallers == 2         \* concurrent callers, each of them calls Get once
MaxConcIdx == 1       \* largest index the concurrent callers ask for
MaxConcN == 1         \* largest capacity under the concurrent callers
MaxConcPad == 1       \* largest cachePad under the concurrent callers
MaxRingIdx == 3       \* largest index set on the cache itself
MaxFaultCalls == 2    \* Get calls made over the failing backend
MaxBuildCalls == 1    \* Get calls made on a tracker after its construction
NHandlers == 2        \* request handlers that run at the same time
MaxRequests == 3      \* requests served between two starts of the process
MaxBoots == 2         \* starts of the process
MaxDenseCap == 5      \* slots of the dense store
MaxDenseInit == 2     \* most values the dense store is built with
MaxDenseIdx == 4      \* largest index looked up in the dense store
MaxLookups == 2       \* lookups made on the dense store

\* ---- constants of the program -------------------------------------------
MaxProbes == 10       \* the probe window of the close-hit search

RECURSIVE Pow2(_)
Pow2(n) == IF n = 0 THEN 1 ELSE 2 * Pow2(n - 1)

Mod == Pow2(W)
MaxIndex == Mod - 1
Index == 0 .. MaxIndex

\* unsigned arithmetic of W bits
UAdd(a, b) == (a + b) % Mod
USub(a, b) == (a - b + Mod) % Mod

\* ---- the textbook sequence, the reference of the claims ------------------
RECURSIVE FibPairAt(_)
FibPairAt(n) ==
    IF n = 0 THEN <<0, 1>>
    ELSE LET p == FibPairAt(n - 1) IN <<p[2], p[1] + p[2]>>

F(n) == FibPairAt(n)[1]

VARIABLES
    cachePad,     \* FibTracker.cachePad
    cache,        \* FibTracker.cache, the slot-ring backend
    CacheStats,   \* FibTracker.CacheStats, the running totals
    last,         \* the most recent call: its index, result and path
    again,        \* the call before it, when it was a Get of the same index
    scan,         \* n when the calls so far were Get(0) .. Get(n-1), else -1
    lruCache,     \* the cache of a second tracker, over the LRU backend
    lruLast,      \* the most recent call of that second tracker
    lastSet,      \* per ring slot, the arguments of the most recent Set
    probe,        \* the most recent lookup made on the cache itself
    scMux,        \* the caller that holds scMux, 0 when it is free
    basePair,     \* the process-wide basePair
    pc,           \* where each concurrent caller is in its Get
    loc,          \* the local variables of each caller's Get
    ncalls,       \* the number of Get calls each caller has started
    results,      \* the (index, value) pairs the callers have read so far
    capacity,     \* the size a cache constructor was called with
    status,       \* how far construction of cache and tracker has come
    currentIndex, \* server.currentIndex, the cursor
    backup,       \* the bytes of the backup file
    handler,      \* where each request handler is in its code
    nexts,        \* the /next requests executed since the process started
    start,        \* the cursor the process started with
    journaled,    \* the index of the last successful backup write, or -1
    remainingFails, \* logCurrentIndex's budget of failed writes
    boots,        \* how often main has run
    store,        \* the dense store: the value at index i is store[i + 1]
    lastIndex,    \* the last published index of the dense store
    updating,     \* the status flag: a grow is in flight
    currentTarget, \* the index the store has been asked to grow to
    storeMux,     \* who holds the store's lock: a caller, -1 a grower, 0 nobody
    growers,      \* the grow tasks that are running
    lookup,       \* where each caller is in its lookup, and what it holds
    lookups       \* the number of lookups started so far

seqHist  == <<last, again, scan>>
twinHist == <<lruCache, lruLast>>
ringHist == <<lastSet, probe>>
concVars == <<scMux, basePair, pc, loc, ncalls, results>>
buildVars == <<capacity, status>>
srvVars  == <<currentIndex, backup, handler, nexts, start, journaled,
              remainingFails, boots>>
denseVars == <<store, lastIndex, updating, currentTarget, storeMux, growers,
               lookup, lookups>>
appVars  == <<buildVars, srvVars, denseVars>>
vars == <<cachePad, cache, CacheStats, seqHist, twinHist, ringHist, concVars,
          appVars>>

\* ---- references to big.Int objects ---------------------------------------
\* A *big.Int handed around by the source is one of: a member of a ring slot
\* (rewritten in place by sliceCache.Set), a member of the global basePair,
\* or an object of its own that holds v.
SlotRef(s, f) == [at |-> "slot", s |-> s, f |-> f, v |-> 0]
BaseRef(f)    == [at |-> "base", s |-> 0, f |-> f, v |-> 0]
ValRef(v)     == [at |-> "val", s |-> 0, f |-> "i", v |-> v]

\* ---- sliceCache -----------------------------------------------------------
scEntry(idx, i, j) == [idx |-> idx, i |-> i, j |-> j]

\* what a constructor leaves when it panics: no cache at all
NoCache == [kind |-> "none", size |-> 0, entries |-> <<>>, slots |-> <<>>]

\* make panics on a negative size, and the write of sc[0] on size 0
MakeSliceCache(size) ==
    IF size < 1 THEN NoCache
    ELSE
    [kind |-> "slice", size |-> size, entries |-> <<>>,
     slots |-> [s \in 0 .. size - 1 |->
                  IF s = 0 THEN scEntry(0, 0, 1) ELSE scEntry(0, 0, 0)]]

NotFound == [found |-> FALSE, i |-> 0, j |-> 0, ri |-> ValRef(0), rj |-> ValRef(0)]

sliceCacheGet(c, idx) ==
    LET s == idx % c.size
        entry == c.slots[s]
    IN  IF entry.idx = idx
        THEN [found |-> TRUE, i |-> entry.i, j |-> entry.j,
              ri |-> SlotRef(s, "i"), rj |-> SlotRef(s, "j")]
        ELSE NotFound

\* a Set that copies the pair and leaves the slot's index as it was
sliceCacheSet_KeepIdx(c, idx, i, j) ==
    [c EXCEPT !.slots[idx % c.size] = scEntry(@.idx, i, j)]

sliceCacheSet(c, idx, i, j) ==
    [c EXCEPT !.slots[idx % c.size] = scEntry(idx, i, j)]

\* ---- hashicorpCache (an LRU of bounded size) ------------------------------
\* entries is ordered from the most to the least recently used.  The LRU
\* stores the fibPair it is given, that is the two pointers: ai and aj name
\* the object (1 or 2) of the running recurrence that the member still
\* shares, 0 once that recurrence has returned and the object changes no more.
hcEntry(key, i, j, ai, aj) == [key |-> key, i |-> i, j |-> j, ai |-> ai, aj |-> aj]

\* the hashicorpCache{} returned next to the error of lru.New: its cache
\* pointer is nil, and every Get or Set on it dereferences that pointer
NilCache == [kind |-> "nil", size |-> 0, entries |-> <<>>, slots |-> <<>>]

\* a constructor that rounds an invalid size up to a cache of one entry
MakeHashicorpCache_Clamped(size) ==
    [kind |-> "lru", size |-> IF size < 1 THEN 1 ELSE size,
     entries |-> <<>>, slots |-> <<>>]

MakeHashicorpCache(size) ==
    IF size < 1 THEN NilCache
    ELSE [kind |-> "lru", size |-> size, entries |-> <<>>, slots |-> <<>>]

Without(seq, key) == SelectSeq(seq, LAMBDA e : e.key # key)

hashicorpCacheGet(c, idx) ==
    LET hit == SelectSeq(c.entries, LAMBDA e : e.key = idx)
    IN  IF hit = <<>> THEN NotFound
        ELSE [found |-> TRUE, i |-> hit[1].i, j |-> hit[1].j,
              ri |-> ValRef(hit[1].i), rj |-> ValRef(hit[1].j)]

\* lru.Cache.Get moves the entry it finds to the front
hashicorpCacheTouch(c, idx) ==
    LET hit == SelectSeq(c.entries, LAMBDA e : e.key = idx)
    IN  IF hit = <<>> THEN c
        ELSE [c EXCEPT !.entries = <<hit[1]>> \o Without(c.entries, idx)]

hashicorpCacheSet(c, idx, i, j, ai, aj) ==
    LET added == <<hcEntry(idx, i, j, ai, aj)>> \o Without(c.entries, idx)
    IN  [c EXCEPT !.entries =
            IF Len(added) > c.size THEN SubSeq(added, 1, c.size) ELSE added]

\* ---- fibCache, the interface the tracker sees -----------------------------
cacheGet(c, idx) ==
    IF c.kind = "slice" THEN sliceCacheGet(c, idx) ELSE hashicorpCacheGet(c, idx)

cacheAfterGet(c, idx) ==
    IF c.kind = "slice" THEN c ELSE hashicorpCacheTouch(c, idx)

cacheSet(c, idx, i, j, ai, aj) ==
    IF c.kind = "slice" THEN sliceCacheSet(c, idx, i, j)
    ELSE hashicorpCacheSet(c, idx, i, j, ai, aj)

\* the objects of a recurrence that has returned are shared with no writer:
\* every member that still names one holds that object's final value
Settle(c, t1, n1, n2) ==
    LET obj(a) == IF a = t1 THEN n1 ELSE n2
        done(e) == hcEntry(e.key, IF e.ai = 0 THEN e.i ELSE obj(e.ai),
                                  IF e.aj = 0 THEN e.j ELSE obj(e.aj), 0, 0)
    IN  IF c.kind = "slice" THEN c
        ELSE [c EXCEPT !.entries = [k \in 1 .. Len(c.entries) |-> done(c.entries[k])]]

\* ---- FibTracker -----------------------------------------------------------
NoStats == [NDirectHit |-> 0, NCloseHit |-> 0, NMiss |-> 0]

countHit(st)   == [st EXCEPT !.NDirectHit = @ + 1]
countClose(st) == [st EXCEPT !.NCloseHit = @ + 1]
\* an increment that is lost
countMiss_Lost(st) == st

countMiss(st)  == [st EXCEPT !.NMiss = @ + 1]

\* a rounding that takes a whole interval off the index
roundDownToPad_WholePad(idx, pad) ==
    LET rounded == USub(idx, pad)
    IN  IF rounded > idx THEN 0 ELSE rounded

roundDownToPad(idx, pad) ==
    LET rounded == USub(idx, idx % pad)
    IN  IF rounded > idx THEN 0 ELSE rounded

\* the recurrence without the backfill of the cache
RECURSIVE calcLoop_NoBackfill(_, _, _, _, _, _, _, _, _)
calcLoop_NoBackfill(i, n1, n2, t1, t2, c, writes, idx, pad) ==
    IF i < UAdd(idx, 1)
    THEN calcLoop_NoBackfill(i + 1, n2 + n1, n1, t2, t1, c, writes, idx, pad)
    ELSE [n1 |-> n1, n2 |-> n2, t1 |-> t1, cache |-> c, writes |-> writes]

\* the loop of calcFromPair: n1 and n2 are the values of the two objects the
\* loop works on, t1 and t2 say which object each of the two pointers names
RECURSIVE calcLoop(_, _, _, _, _, _, _, _, _)
calcLoop(i, n1, n2, t1, t2, c, writes, idx, pad) ==
    IF i < UAdd(idx, 1)
    THEN LET sum == n2 + n1        \* n2.Add(n2, n1), then n1, n2 = n2, n1
             c2 == IF i % pad = 0 THEN cacheSet(c, i, sum, n1, t2, t1) ELSE c
             w2 == IF i % pad = 0 THEN Append(writes, i) ELSE writes
         IN  calcLoop(i + 1, sum, n1, t2, t1, c2, w2, idx, pad)
    ELSE [n1 |-> n1, n2 |-> n2, t1 |-> t1, cache |-> c, writes |-> writes]

\* what calcFromPair returns once its loop has ended with r
calcDone(r, steps) ==
    [val |-> r.n1, ref |-> ValRef(r.n1),
     cache |-> Settle(r.cache, r.t1, r.n1, r.n2), writes |-> r.writes,
     steps |-> steps]

\* pi and pj are the values of pair.i and pair.j, ri and rj the pointers
calcFromPair(pairIdx, pi, pj, ri, rj, idx, c, pad) ==
    IF pairIdx = idx
    THEN [val |-> pi, ref |-> ri, cache |-> c, writes |-> <<>>, steps |-> 0]
    ELSE IF USub(pairIdx, 1) = idx
    THEN [val |-> pj, ref |-> rj, cache |-> c, writes |-> <<>>, steps |-> 0]
    ELSE calcDone(calcLoop(UAdd(pairIdx, 1), pi, pj, 1, 2, c, <<>>, idx, pad),
                  IF UAdd(pairIdx, 1) < UAdd(idx, 1)
                  THEN UAdd(idx, 1) - UAdd(pairIdx, 1) ELSE 0)

\* basePair is reset to (0, 1) and handed to calcFromPair
calcFromZero(idx, c, pad) ==
    calcFromPair(0, 0, 1, BaseRef("i"), BaseRef("j"), idx, c, pad)

\* the probe loop of Get
RECURSIVE probeLoop(_, _, _, _, _, _)
probeLoop(k, closeIndex, c, probes, idx, pad) ==
    IF k < MaxProbes /\ closeIndex <= idx
    THEN LET r == cacheGet(c, closeIndex)
             c2 == cacheAfterGet(c, closeIndex)
         IN  IF r.found
             THEN [found |-> TRUE, closeIndex |-> closeIndex, pair |-> r,
                   cache |-> c2, probes |-> Append(probes, closeIndex)]
             ELSE probeLoop(k + 1, USub(closeIndex, pad), c2,
                            Append(probes, closeIndex), idx, pad)
    ELSE [found |-> FALSE, closeIndex |-> closeIndex, pair |-> NotFound,
          cache |-> c, probes |-> probes]

GetResult(r, path, st, direct, probes) ==
    [val |-> r.val, ref |-> r.ref, path |-> path, cache |-> r.cache, stats |-> st,
     direct |-> direct, probes |-> probes, writes |-> r.writes, steps |-> r.steps]

\* Get after its probe loop has ended with p
GetFromProbe(p, idx, st, pad, dIdx) ==
    IF p.found
    THEN GetResult(calcFromPair(p.closeIndex, p.pair.i, p.pair.j,
                                p.pair.ri, p.pair.rj, idx, p.cache, pad),
                   "close", countClose(st), dIdx, p.probes)
    ELSE GetResult(calcFromZero(idx, p.cache, pad),
                   "miss", countMiss(st), dIdx, p.probes)

\* a Get whose direct hit on the entry above the index returns the first
\* member of that entry
Get_HighKeyFirst(idx, c, st, pad) ==
    LET lowKey  == idx % pad = 0
        highKey == ~lowKey /\ UAdd(idx, 1) % pad = 0
        dIdx    == IF lowKey THEN idx ELSE IF highKey THEN UAdd(idx, 1) ELSE -1
        d       == IF dIdx = -1 THEN NotFound ELSE cacheGet(c, dIdx)
        c1      == IF dIdx = -1 THEN c ELSE cacheAfterGet(c, dIdx)
    IN  IF d.found
        THEN GetResult([val |-> d.i, ref |-> d.ri,
                        cache |-> c1, writes |-> <<>>, steps |-> 0],
                       "direct", countHit(st), dIdx, <<>>)
        ELSE GetFromProbe(probeLoop(0, roundDownToPad(idx, pad), c1, <<>>, idx, pad),
                          idx, st, pad, dIdx)

\* FibTracker.Get as one sequential call: the value, the counters and the
\* cache it leaves.  direct is the index of the direct-hit lookup, -1 if none.
Get(idx, c, st, pad) ==
    LET lowKey  == idx % pad = 0
        highKey == ~lowKey /\ UAdd(idx, 1) % pad = 0
        dIdx    == IF lowKey THEN idx ELSE IF highKey THEN UAdd(idx, 1) ELSE -1
        d       == IF dIdx = -1 THEN NotFound ELSE cacheGet(c, dIdx)
        c1      == IF dIdx = -1 THEN c ELSE cacheAfterGet(c, dIdx)
    IN  IF d.found
        THEN GetResult([val |-> IF lowKey THEN d.i ELSE d.j,
                        ref |-> IF lowKey THEN d.ri ELSE d.rj,
                        cache |-> c1, writes |-> <<>>, steps |-> 0],
                       "direct", countHit(st), dIdx, <<>>)
        ELSE GetFromProbe(probeLoop(0, roundDownToPad(idx, pad), c1, <<>>, idx, pad),
                          idx, st, pad, dIdx)

\* ---- what a run records ----------------------------------------------------
NoCall ==
    [op |-> "none", idx |-> -1, val |-> 0, ref |-> ValRef(0), path |-> "none",
     counted |-> NoStats, direct |-> -1, probes |-> <<>>, writes |-> <<>>,
     steps |-> 0]

NoAgain == [is |-> FALSE, val |-> 0, path |-> "none"]

Call(op, idx, r) ==
    [op |-> op, idx |-> idx, val |-> r.val, ref |-> r.ref, path |-> r.path,
     counted |-> r.stats, direct |-> r.direct, probes |-> r.probes,
     writes |-> r.writes, steps |-> r.steps]

NoProbe == [idx |-> -1, found |-> FALSE, i |-> 0, j |-> 0]

Callers == 1 .. NCallers

NoLoc ==
    [idx |-> 0, closeIndex |-> 0, k |-> 0, pairIdx |-> 0, ri |-> ValRef(0),
     rj |-> ValRef(0), n1 |-> 0, n2 |-> 0, i |-> 0, path |-> "none",
     ret |-> ValRef(0), counted |-> 0]

Total(st) == st.NDirectHit + st.NCloseHit + st.NMiss

\* the parts of the state a specification does not use stay as constructed
SeqIdle  == last = NoCall /\ again = NoAgain /\ scan = 0
TwinIdle == lruCache = MakeHashicorpCache(1) /\ lruLast = NoCall
RingIdle == lastSet = <<>> /\ probe = NoProbe
ConcIdle ==
    /\ scMux = 0
    /\ basePair = [i |-> 0, j |-> 1]
    /\ pc = [c \in Callers |-> "idle"]
    /\ loc = [c \in Callers |-> NoLoc]
    /\ ncalls = [c \in Callers |-> 0]
    /\ results = {}

Handlers == 1 .. NHandlers
BuildIdle == capacity = 1 /\ status = "ready"
SrvIdle ==
    /\ currentIndex = 0
    /\ backup = <<>>
    /\ handler = [h \in Handlers |-> "idle"]
    /\ nexts = 0
    /\ start = 0
    /\ journaled = -1
    /\ remainingFails = 3
    /\ boots = 0
NoLookup == [pc |-> "idle", idx |-> 0, from |-> 0, grew |-> FALSE, val |-> -1]
DenseIdle ==
    /\ store = <<>>
    /\ lastIndex = 0
    /\ updating = FALSE
    /\ currentTarget = 0
    /\ storeMux = 0
    /\ growers = <<>>
    /\ lookup = [c \in Callers |-> NoLookup]
    /\ lookups = 0
AppIdle == BuildIdle /\ SrvIdle /\ DenseIdle

\* ---- sequential use of one tracker over the slot-ring cache --------------
\* The counters only ever grow and nothing reads them, so a sequential run
\* records what each call added to them (last.counted) and not their totals.
SeqInit ==
    /\ cachePad \in 1 .. MaxPad
    /\ \E size \in 1 .. MaxN : cache = MakeSliceCache(size)
    /\ CacheStats = NoStats
    /\ SeqIdle /\ TwinIdle /\ RingIdle /\ ConcIdle /\ AppIdle

SeqCall(idx) ==
    \E r \in {Get(idx, cache, NoStats, cachePad)} :
        /\ cache' = r.cache
        /\ last' = Call("Get", idx, r)
        /\ again' = IF last.op = "Get" /\ last.idx = idx
                    THEN [is |-> TRUE, val |-> last.val, path |-> last.path]
                    ELSE NoAgain
        /\ scan' = IF scan = idx THEN scan + 1 ELSE -1
        /\ UNCHANGED cachePad

SeqGet(idx) ==
    /\ SeqCall(idx)
    /\ UNCHANGED <<CacheStats, twinHist, ringHist, concVars, appVars>>

\* calcFromZero called on its own, as TestCalcFromZero does
SeqCalcFromZero(idx) ==
    \E r \in {calcFromZero(idx, cache, cachePad)} :
        /\ cache' = r.cache
        /\ last' = Call("calcFromZero", idx, GetResult(r, "none", NoStats, -1, <<>>))
        /\ again' = NoAgain
        /\ scan' = -1
        /\ UNCHANGED <<cachePad, CacheStats, twinHist, ringHist,
                 concVars, appVars>>

SeqNext == \E idx \in Index : SeqGet(idx)

Spec == SeqInit /\ [][SeqNext]_vars

ZeroNext ==
    \/ \E idx \in Index : SeqGet(idx)
    \/ \E idx \in Index : SeqCalcFromZero(idx)

SpecZero == SeqInit /\ [][ZeroNext]_vars

\* ---- two trackers, one per backend, given the same calls ------------------
\* Values read from a spoiled LRU entry grow without bound: the number of
\* calls is capped, and counted by the counters of the slot-ring tracker.
TwinInit ==
    /\ cachePad \in 1 .. MaxPad
    /\ \E size \in 1 .. MaxN : cache = MakeSliceCache(size)
    /\ \E size \in 1 .. MaxN : lruCache = MakeHashicorpCache(size)
    /\ lruLast = NoCall
    /\ CacheStats = NoStats
    /\ SeqIdle /\ RingIdle /\ ConcIdle /\ AppIdle

TwinGet(idx) ==
    /\ Total(CacheStats) < MaxTwinCalls
    /\ SeqCall(idx)
    /\ CacheStats' = [NDirectHit |-> CacheStats.NDirectHit + last'.counted.NDirectHit,
                      NCloseHit |-> CacheStats.NCloseHit + last'.counted.NCloseHit,
                      NMiss |-> CacheStats.NMiss + last'.counted.NMiss]
    /\ \E r \in {Get(idx, lruCache, NoStats, cachePad)} :
           /\ lruCache' = r.cache
           /\ lruLast' = Call("Get", idx, r)
    /\ UNCHANGED <<ringHist, concVars, appVars>>

TwinNext == \E idx \in Index : TwinGet(idx)

SpecTwin == TwinInit /\ [][TwinNext]_vars

\* ---- the slot-ring cache on its own ---------------------------------------
\* Set and Get of sliceCache called directly, with any index and any pair.
RingIndex == 0 .. MaxRingIdx
RingPairs == {<<0, 1>>, <<1, 0>>, <<2, 3>>}

NoSet == [set |-> FALSE, idx |-> 0, i |-> 0, j |-> 0]

RingInit ==
    /\ cachePad = 1
    /\ \E size \in 1 .. MaxN :
          /\ cache = MakeSliceCache(size)
          /\ lastSet = [s \in 0 .. size - 1 |-> NoSet]
    /\ probe = NoProbe
    /\ CacheStats = NoStats
    /\ SeqIdle /\ TwinIdle /\ ConcIdle /\ AppIdle

RingSet(idx, pair) ==
    /\ cache' = sliceCacheSet(cache, idx, pair[1], pair[2])
    /\ lastSet' = [lastSet EXCEPT ![idx % cache.size] =
                      [set |-> TRUE, idx |-> idx, i |-> pair[1], j |-> pair[2]]]
    /\ probe' = NoProbe
    /\ UNCHANGED <<cachePad, CacheStats, seqHist, twinHist,
                 concVars, appVars>>

RingGet(idx) ==
    /\ LET r == sliceCacheGet(cache, idx)
       IN  probe' = [idx |-> idx, found |-> r.found, i |-> r.i, j |-> r.j]
    /\ UNCHANGED <<cachePad, cache, lastSet, CacheStats, seqHist, twinHist,
                 concVars, appVars>>

RingNext ==
    \/ \E idx \in RingIndex, pair \in RingPairs : RingSet(idx, pair)
    \/ \E idx \in RingIndex : RingGet(idx)

SpecRing == RingInit /\ [][RingNext]_vars

\* ---- concurrent callers of one tracker over the slot-ring cache ------------
\* One step per access to shared memory.  sliceCache.Get and every statement
\* of sliceCache.Set run under scMux; the copies calcFromPair takes of the
\* pair it was handed, and the caller's read of the *big.Int that Get
\* returned, take no lock.  A big.Int is read and written as a whole.
Deref(ref) ==
    IF ref.at = "slot" THEN
        IF ref.f = "i" THEN cache.slots[ref.s].i ELSE cache.slots[ref.s].j
    ELSE IF ref.at = "base" THEN
        IF ref.f = "i" THEN basePair.i ELSE basePair.j
    ELSE ref.v

ConcInit ==
    /\ cachePad \in 1 .. MaxConcPad
    /\ \E size \in 1 .. MaxConcN : cache = MakeSliceCache(size)
    /\ CacheStats = NoStats
    /\ SeqIdle /\ TwinIdle /\ RingIdle /\ ConcIdle /\ AppIdle

concFrame == <<cachePad, seqHist, twinHist, ringHist, appVars>>

Goto(c, label) == pc' = [pc EXCEPT ![c] = label]

\* Get is entered: which index, if any, the direct-hit lookup asks for
\* (kept in closeIndex until the probe loop sets closeIndex itself)
StartWithin(c, idx, limit) ==
    /\ pc[c] = "idle"
    /\ ncalls[c] < limit
    /\ ncalls' = [ncalls EXCEPT ![c] = @ + 1]
    /\ LET lowKey  == idx % cachePad = 0
           highKey == ~lowKey /\ UAdd(idx, 1) % cachePad = 0
       IN  IF lowKey \/ highKey
           THEN /\ loc' = [loc EXCEPT ![c] =
                     [NoLoc EXCEPT !.idx = idx,
                                   !.closeIndex = IF lowKey THEN idx ELSE UAdd(idx, 1)]]
                /\ Goto(c, "direct")
           ELSE /\ loc' = [loc EXCEPT ![c] =
                     [NoLoc EXCEPT !.idx = idx,
                                   !.closeIndex = roundDownToPad(idx, cachePad)]]
                /\ Goto(c, "probe")
    /\ UNCHANGED <<cache, CacheStats, scMux, basePair, results, concFrame>>

\* a concurrent caller makes one call: calls that follow one another are the
\* calls of callers of which one starts after the other has returned
Start(c, idx) == StartWithin(c, idx, 1)

\* fib.cache.Get(idx) or fib.cache.Get(idx + 1) of the direct-hit test
Direct(c) ==
    /\ pc[c] = "direct"
    /\ scMux = 0
    /\ LET d == sliceCacheGet(cache, loc[c].closeIndex)
           lowKey == loc[c].idx % cachePad = 0
       IN  IF d.found
           THEN /\ loc' = [loc EXCEPT ![c].ret = IF lowKey THEN d.ri ELSE d.rj]
                /\ Goto(c, "countHit")
           ELSE /\ loc' = [loc EXCEPT ![c].closeIndex =
                                          roundDownToPad(loc[c].idx, cachePad)]
                /\ Goto(c, "probe")
    /\ UNCHANGED <<cache, CacheStats, scMux, basePair, ncalls, results, concFrame>>

\* one turn of the probe loop
Probe(c) ==
    /\ pc[c] = "probe"
    /\ IF loc[c].k < MaxProbes /\ loc[c].closeIndex <= loc[c].idx
       THEN /\ scMux = 0
            /\ LET r == sliceCacheGet(cache, loc[c].closeIndex)
               IN  IF r.found
                   THEN /\ loc' = [loc EXCEPT ![c].pairIdx = loc[c].closeIndex,
                                              ![c].ri = r.ri, ![c].rj = r.rj]
                        /\ Goto(c, "countClose")
                   ELSE /\ loc' = [loc EXCEPT ![c].k = @ + 1,
                                      ![c].closeIndex = USub(@, cachePad)]
                        /\ UNCHANGED pc
       ELSE /\ Goto(c, "countMiss")
            /\ UNCHANGED loc
    /\ UNCHANGED <<cache, CacheStats, scMux, basePair, ncalls, results, concFrame>>

CountHit(c) ==
    /\ pc[c] = "countHit"
    /\ CacheStats' = countHit(CacheStats)
    /\ loc' = [loc EXCEPT ![c].counted = @ + 1, ![c].path = "direct"]
    /\ Goto(c, "return")
    /\ UNCHANGED <<cache, scMux, basePair, ncalls, results, concFrame>>

CountClose(c) ==
    /\ pc[c] = "countClose"
    /\ CacheStats' = countClose(CacheStats)
    /\ loc' = [loc EXCEPT ![c].counted = @ + 1, ![c].path = "close"]
    /\ Goto(c, "calc")
    /\ UNCHANGED <<cache, scMux, basePair, ncalls, results, concFrame>>

CountMiss(c) ==
    /\ pc[c] = "countMiss"
    /\ CacheStats' = countMiss(CacheStats)
    /\ loc' = [loc EXCEPT ![c].counted = @ + 1, ![c].path = "miss"]
    /\ Goto(c, "zeroI")
    /\ UNCHANGED <<cache, scMux, basePair, ncalls, results, concFrame>>

\* calcFromZero: basePair.i.SetInt64(0)
ZeroI(c) ==
    /\ pc[c] = "zeroI"
    /\ basePair' = [basePair EXCEPT !.i = 0]
    /\ Goto(c, "zeroJ")
    /\ UNCHANGED <<cache, CacheStats, scMux, loc, ncalls, results, concFrame>>

\* calcFromZero: basePair.j.SetInt64(1), then calcFromPair(0, basePair, idx)
ZeroJ(c) ==
    /\ pc[c] = "zeroJ"
    /\ basePair' = [basePair EXCEPT !.j = 1]
    /\ loc' = [loc EXCEPT ![c].pairIdx = 0, ![c].ri = BaseRef("i"),
                          ![c].rj = BaseRef("j")]
    /\ Goto(c, "calc")
    /\ UNCHANGED <<cache, CacheStats, scMux, ncalls, results, concFrame>>

\* calcFromPair: the two early returns, else n1 := copy of pair.i
Calc(c) ==
    /\ pc[c] = "calc"
    /\ IF loc[c].pairIdx = loc[c].idx
       THEN /\ loc' = [loc EXCEPT ![c].ret = loc[c].ri]
            /\ Goto(c, "return")
       ELSE IF USub(loc[c].pairIdx, 1) = loc[c].idx
       THEN /\ loc' = [loc EXCEPT ![c].ret = loc[c].rj]
            /\ Goto(c, "return")
       ELSE /\ loc' = [loc EXCEPT ![c].n1 = Deref(loc[c].ri)]
            /\ Goto(c, "copyJ")
    /\ UNCHANGED <<cache, CacheStats, scMux, basePair, ncalls, results, concFrame>>

\* n2 := copy of pair.j, and the loop starts at pairIdx + 1
CopyJ(c) ==
    /\ pc[c] = "copyJ"
    /\ loc' = [loc EXCEPT ![c].n2 = Deref(loc[c].rj),
                          ![c].i = UAdd(loc[c].pairIdx, 1)]
    /\ Goto(c, "loop")
    /\ UNCHANGED <<cache, CacheStats, scMux, basePair, ncalls, results, concFrame>>

\* one turn of the recurrence, up to the Set it may call
Loop(c) ==
    /\ pc[c] = "loop"
    /\ IF loc[c].i < UAdd(loc[c].idx, 1)
       THEN /\ loc' = [loc EXCEPT ![c].n1 = loc[c].n2 + loc[c].n1,
                                  ![c].n2 = loc[c].n1,
                                  ![c].i = IF loc[c].i % cachePad = 0
                                           THEN @ ELSE @ + 1]
            /\ IF loc[c].i % cachePad = 0 THEN Goto(c, "setI") ELSE UNCHANGED pc
       ELSE /\ loc' = [loc EXCEPT ![c].ret = ValRef(loc[c].n1)]
            /\ Goto(c, "return")
    /\ UNCHANGED <<cache, CacheStats, scMux, basePair, ncalls, results, concFrame>>

\* sliceCache.Set: scMux.Lock() and pair.i.Set(pair.i)
SetI(c) ==
    /\ pc[c] = "setI"
    /\ scMux = 0
    /\ scMux' = c
    /\ cache' = [cache EXCEPT !.slots[loc[c].i % cache.size].i = loc[c].n1]
    /\ Goto(c, "setJ")
    /\ UNCHANGED <<CacheStats, basePair, loc, ncalls, results, concFrame>>

\* sliceCache.Set: pair.j.Set(pair.j)
SetJ(c) ==
    /\ pc[c] = "setJ"
    /\ cache' = [cache EXCEPT !.slots[loc[c].i % cache.size].j = loc[c].n2]
    /\ Goto(c, "setIdx")
    /\ UNCHANGED <<CacheStats, scMux, basePair, loc, ncalls, results, concFrame>>

\* sliceCache.Set: idx = idx and the deferred scMux.Unlock(); then i++
SetIdx(c) ==
    /\ pc[c] = "setIdx"
    /\ cache' = [cache EXCEPT !.slots[loc[c].i % cache.size].idx = loc[c].i]
    /\ scMux' = 0
    /\ loc' = [loc EXCEPT ![c].i = @ + 1]
    /\ Goto(c, "loop")
    /\ UNCHANGED <<CacheStats, basePair, ncalls, results, concFrame>>

\* Get has returned a *big.Int and its caller reads the number behind it
Return(c) ==
    /\ pc[c] = "return"
    /\ results' = results \cup {[idx |-> loc[c].idx, val |-> Deref(loc[c].ret),
                                 path |-> loc[c].path]}
    /\ loc' = [loc EXCEPT ![c] = NoLoc]
    /\ Goto(c, "idle")
    /\ UNCHANGED <<cache, CacheStats, scMux, basePair, ncalls, concFrame>>

ConcIndex == 0 .. MaxConcIdx

ConcNext ==
    \E c \in Callers :
        \/ \E idx \in ConcIndex : Start(c, idx)
        \/ Direct(c)
        \/ Probe(c)
        \/ CountHit(c)
        \/ CountClose(c)
        \/ CountMiss(c)
        \/ ZeroI(c)
        \/ ZeroJ(c)
        \/ Calc(c)
        \/ CopyJ(c)
        \/ Loop(c)
        \/ SetI(c)
        \/ SetJ(c)
        \/ SetIdx(c)
        \/ Return(c)

SpecConc == ConcInit /\ [][ConcNext]_vars

\* the same callers, who may also ask for the largest index
WideIndex == ConcIndex \cup {MaxIndex}

WideNext ==
    \E c \in Callers :
        \/ \E idx \in WideIndex : Start(c, idx)
        \/ Direct(c)
        \/ Probe(c)
        \/ CountHit(c)
        \/ CountClose(c)
        \/ CountMiss(c)
        \/ ZeroI(c)
        \/ ZeroJ(c)
        \/ Calc(c)
        \/ CopyJ(c)
        \/ Loop(c)
        \/ SetI(c)
        \/ SetJ(c)
        \/ SetIdx(c)
        \/ Return(c)

SpecConcWide == ConcInit /\ [][WideNext]_vars

\* the steps of a caller whose Get has started
CallerStep(c) ==
    \/ Direct(c) \/ Probe(c)
    \/ CountHit(c) \/ CountClose(c) \/ CountMiss(c)
    \/ ZeroI(c) \/ ZeroJ(c) \/ Calc(c) \/ CopyJ(c) \/ Loop(c)
    \/ SetI(c) \/ SetJ(c) \/ SetIdx(c)
    \/ Return(c)

\* the scheduler lets every goroutine that can run take its next step
SpecConcFair == SpecConc /\ \A c \in Callers : WF_vars(CallerStep(c))

\* ---- one caller over a backend that may fail ---------------------------------
\* fibCache lets Get and Set return an error.  Get of the tracker tests
\* err == nil after every lookup and drops what Set returns; a backend that
\* fails is the slot-ring cache whose Get may report an error in place of
\* its answer and whose Set may return without having stored anything.
DirectFails(c) ==
    /\ pc[c] = "direct"
    /\ loc' = [loc EXCEPT ![c].closeIndex = roundDownToPad(loc[c].idx, cachePad)]
    /\ Goto(c, "probe")
    /\ UNCHANGED <<cache, CacheStats, scMux, basePair, ncalls, results, concFrame>>

ProbeFails(c) ==
    /\ pc[c] = "probe"
    /\ loc[c].k < MaxProbes /\ loc[c].closeIndex <= loc[c].idx
    /\ loc' = [loc EXCEPT ![c].k = @ + 1, ![c].closeIndex = USub(@, cachePad)]
    /\ UNCHANGED <<cache, CacheStats, scMux, basePair, pc, ncalls, results, concFrame>>

SetFails(c) ==
    /\ pc[c] = "setI"
    /\ loc' = [loc EXCEPT ![c].i = @ + 1]
    /\ Goto(c, "loop")
    /\ UNCHANGED <<cache, CacheStats, scMux, basePair, ncalls, results, concFrame>>

FaultyInit ==
    /\ cachePad \in 1 .. MaxPad
    /\ \E size \in 1 .. MaxN : cache = MakeSliceCache(size)
    /\ CacheStats = NoStats
    /\ SeqIdle /\ TwinIdle /\ RingIdle /\ ConcIdle /\ AppIdle

FaultyStart(idx) == StartWithin(1, idx, MaxFaultCalls)

FaultyNext ==
    \/ \E idx \in Index : FaultyStart(idx)
    \/ Direct(1) \/ DirectFails(1)
    \/ Probe(1) \/ ProbeFails(1)
    \/ CountHit(1) \/ CountClose(1) \/ CountMiss(1)
    \/ ZeroI(1) \/ ZeroJ(1) \/ Calc(1) \/ CopyJ(1) \/ Loop(1)
    \/ SetI(1) \/ SetJ(1) \/ SetIdx(1) \/ SetFails(1)
    \/ Return(1)

SpecFaulty == FaultyInit /\ [][FaultyNext]_vars

\* ---- construction of a cache and of a tracker over it ----------------------
\* status: "none" before the constructor runs, "panic" when the process has
\* panicked, "built" with a cache and no error, "error" with an error next to
\* the cache, "exit" when the caller has stopped on the error, "ready" once
\* MakeFibTracker has wrapped the cache.
Capacities == -1 .. MaxN

BuildInit ==
    /\ cachePad \in 1 .. MaxPad
    /\ cache = NoCache
    /\ CacheStats = NoStats
    /\ capacity = 0
    /\ status = "none"
    /\ SeqIdle /\ TwinIdle /\ RingIdle /\ ConcIdle /\ SrvIdle /\ DenseIdle

buildFrame == <<cachePad, twinHist, ringHist, concVars, srvVars, denseVars>>

NewSliceCache(size) ==
    /\ status = "none"
    /\ capacity' = size
    /\ cache' = MakeSliceCache(size)
    /\ status' = IF cache'.kind = "none" THEN "panic" ELSE "built"
    /\ UNCHANGED <<CacheStats, seqHist, buildFrame>>

NewHashicorpCache(size) ==
    /\ status = "none"
    /\ capacity' = size
    /\ cache' = MakeHashicorpCache(size)
    /\ status' = IF cache'.kind = "nil" THEN "error" ELSE "built"
    /\ UNCHANGED <<CacheStats, seqHist, buildFrame>>

\* the callers of this repository stop on the error (log.Fatal, t.Fatal)
StopOnError ==
    /\ status = "error"
    /\ status' = "exit"
    /\ UNCHANGED <<cache, CacheStats, capacity, seqHist, buildFrame>>

\* MakeFibTracker takes the cache as it is, whatever came with it
NewFibTracker ==
    /\ status \in {"built", "error"}
    /\ status' = "ready"
    /\ UNCHANGED <<cache, CacheStats, capacity, seqHist, buildFrame>>

\* the first use of the cache by Get panics when the cache pointer is nil
BuildGet(idx) ==
    /\ status = "ready"
    /\ Total(CacheStats) < MaxBuildCalls
    /\ \E r \in {Get(idx, IF cache.kind = "nil" THEN MakeHashicorpCache(1)
                                                ELSE cache,
                      CacheStats, cachePad)} :
          IF cache.kind = "nil" /\ (r.direct # -1 \/ r.probes # <<>>)
          THEN /\ status' = "panic"
               /\ UNCHANGED <<cache, CacheStats, seqHist>>
          ELSE /\ cache' = IF cache.kind = "nil" THEN cache
                                                 ELSE Settle(r.cache, 0, 0, 0)
               /\ CacheStats' = r.stats
               /\ last' = Call("Get", idx, r)
               /\ UNCHANGED <<again, scan, status>>
    /\ UNCHANGED <<capacity, buildFrame>>

BuildNext ==
    \/ \E size \in Capacities : NewSliceCache(size)
    \/ \E size \in Capacities : NewHashicorpCache(size)
    \/ StopOnError
    \/ NewFibTracker
    \/ \E idx \in Index : BuildGet(idx)

SpecBuild == BuildInit /\ [][BuildNext]_vars

\* ---- the server: cursor, request handlers, backup file --------------------
\* main builds the tracker with literal sizes; the model scales them to its
\* own largest ones
ServerPad  == MaxPad
ServerSize == MaxN

\* the 4 bytes of a cursor: a byte has a quarter of the bits of an index
BackupLen == 4
ByteBase == Pow2((W + 3) \div 4)

RECURSIVE BytePow(_)
BytePow(k) == IF k = 0 THEN 1 ELSE ByteBase * BytePow(k - 1)

\* binary.LittleEndian.PutUint32
PutUint32(v) == [k \in 1 .. BackupLen |-> (v \div BytePow(k - 1)) % ByteBase]

RECURSIVE SumBytes(_, _)
SumBytes(bs, k) ==
    IF k > Len(bs) THEN 0 ELSE bs[k] * BytePow(k - 1) + SumBytes(bs, k + 1)

\* a decoder that takes the first byte as the most significant one
Uint32_BigEndian(bs) ==
    SumBytes([k \in 1 .. Len(bs) |-> bs[Len(bs) + 1 - k]], 1)

\* binary.LittleEndian.Uint32
Uint32(bs) == SumBytes(bs, 1)

\* File.WriteAt(bs, 0): the bytes of bs replace those at the same offsets
WriteAt(file, bs) ==
    [k \in 1 .. (IF Len(file) > Len(bs) THEN Len(file) ELSE Len(bs)) |->
        IF k <= Len(bs) THEN bs[k] ELSE file[k]]

\* File.Read into a buffer of 4 bytes, from the start of the file
Read(file) ==
    SubSeq(file, 1, IF Len(file) < BackupLen THEN Len(file) ELSE BackupLen)

\* the process is not running yet, and no backup file exists
ServerInit ==
    /\ cachePad = ServerPad
    /\ cache = MakeSliceCache(ServerSize)
    /\ CacheStats = NoStats
    /\ capacity = ServerSize
    /\ status = "down"
    /\ SeqIdle /\ TwinIdle /\ RingIdle /\ ConcIdle /\ SrvIdle /\ DenseIdle

serverFrame == <<cachePad, capacity, seqHist, twinHist, ringHist, concVars,
                 denseVars>>

Idle == [h \in Handlers |-> "idle"]

\* main: a fresh tracker, the cursor from the backup file when it yields
\* 4 bytes, then the journaling task and the handlers start
Main ==
    /\ status = "down"
    /\ boots < MaxBoots
    /\ boots' = boots + 1
    /\ cache' = MakeSliceCache(ServerSize)
    /\ CacheStats' = NoStats
    /\ LET bs == Read(backup)
       IN  currentIndex' = IF Len(bs) = BackupLen THEN Uint32(bs) ELSE 0
    /\ start' = currentIndex'
    /\ nexts' = 0
    /\ remainingFails' = 3
    /\ handler' = Idle
    /\ status' = "ready"
    /\ UNCHANGED <<backup, journaled, serverFrame>>

\* the process is killed, whatever its handlers were doing
Crash ==
    /\ status = "ready"
    /\ status' = "down"
    /\ handler' = Idle
    /\ UNCHANGED <<cache, CacheStats, currentIndex, backup, nexts, start,
                   journaled, remainingFails, boots, serverFrame>>

\* a handler may start while the process runs and the budget of requests lasts
MayStart(h) ==
    /\ status = "ready"
    /\ handler[h] = "idle"
    /\ Total(CacheStats) + Cardinality({g \in Handlers : handler[g] # "idle"})
          < MaxRequests

\* s.fib.Get(idx), the response of every handler
Respond(idx) ==
    \E r \in {Get(idx, cache, CacheStats, cachePad)} :
        /\ cache' = r.cache
        /\ CacheStats' = r.stats

handleGetCurrent(h) ==
    /\ MayStart(h)
    /\ Respond(currentIndex)
    /\ UNCHANGED <<currentIndex, backup, handler, nexts, start, journaled,
                   remainingFails, boots, status, serverFrame>>

handleSetNext(h) ==
    /\ MayStart(h)
    /\ currentIndex' = UAdd(currentIndex, 1)
    /\ nexts' = nexts + 1
    /\ Respond(currentIndex')
    /\ UNCHANGED <<backup, handler, start, journaled, remainingFails, boots,
                   status, serverFrame>>

\* handleSetPrevious up to its test of the cursor; a cursor of 0 is served
\* at once
PreviousTest(h) ==
    /\ MayStart(h)
    /\ IF currentIndex > 0
       THEN /\ handler' = [handler EXCEPT ![h] = "decrement"]
            /\ UNCHANGED <<cache, CacheStats>>
       ELSE /\ Respond(0)
            /\ UNCHANGED handler
    /\ UNCHANGED <<currentIndex, backup, nexts, start, journaled,
                   remainingFails, boots, status, serverFrame>>

\* handleSetPrevious from its atomic.AddUint32(&s.currentIndex, ^uint32(0))
PreviousAdd(h) ==
    /\ status = "ready"
    /\ handler[h] = "decrement"
    /\ currentIndex' = USub(currentIndex, 1)
    /\ Respond(currentIndex')
    /\ handler' = [handler EXCEPT ![h] = "idle"]
    /\ UNCHANGED <<backup, nexts, start, journaled, remainingFails, boots,
                   status, serverFrame>>

\* one tick of logCurrentIndex whose write succeeds
LogWrites ==
    /\ status = "ready"
    /\ backup' = WriteAt(backup, PutUint32(currentIndex))
    /\ journaled' = currentIndex
    /\ UNCHANGED <<cache, CacheStats, currentIndex, handler, nexts, start,
                   remainingFails, boots, status, serverFrame>>

\* one tick whose write fails and leaves the file as it was: the third
\* failure ends the process
LogFails ==
    /\ status = "ready"
    /\ remainingFails' = remainingFails - 1
    /\ IF remainingFails' = 0
       THEN status' = "down" /\ handler' = Idle
       ELSE UNCHANGED <<status, handler>>
    /\ UNCHANGED <<cache, CacheStats, currentIndex, backup, nexts, start,
                   journaled, boots, serverFrame>>

ServerNext ==
    \/ Main
    \/ Crash
    \/ \E h \in Handlers : handleGetCurrent(h)
    \/ \E h \in Handlers : handleSetNext(h)
    \/ \E h \in Handlers : PreviousTest(h)
    \/ \E h \in Handlers : PreviousAdd(h)
    \/ LogWrites
    \/ LogFails

SpecServer == ServerInit /\ [][ServerNext]_vars

\* ---- a tracker whose store is filled at construction -----------------------
\* WithInitializedStore: nInit = max(2, nInit), then fib.Get(nInit)
WithInitializedStore(nInit) ==
    /\ status = "ready"
    /\ \E r \in {Get(IF nInit < 2 THEN 2 ELSE nInit, cache, NoStats, cachePad)} :
          /\ cache' = r.cache
          /\ last' = Call("WithInitializedStore",
                          IF nInit < 2 THEN 2 ELSE nInit, r)
    /\ status' = "filled"
    /\ UNCHANGED <<cachePad, CacheStats, again, scan, capacity, twinHist,
                   ringHist, concVars, srvVars, denseVars>>

\* a Get on the tracker that WithInitializedStore has returned
FilledGet(idx) ==
    /\ status = "filled"
    /\ SeqGet(idx)

StoreNext ==
    \/ \E nInit \in Index : WithInitializedStore(nInit)
    \/ \E idx \in Index : FilledGet(idx)

SpecStore == SeqInit /\ [][StoreNext]_vars

\* ---- the growable dense store ------------------------------------------------
\* The tracker that main builds with MakeFibTracker().WithInitializedStore(n)
\* keeps the first values of the sequence in an array of fixed capacity and
\* extends the filled part on demand.  lastIndex and the flag updating are
\* read and written under the store's lock; the array is written by the grow
\* task only, above lastIndex, and read without the lock at and below it.
\* Index arithmetic is taken over the natural numbers here.
GrowthFactor == 2

DenseIndex == 0 .. MaxDenseIdx

\* the store as WithInitializedStore(n) leaves it: n values, the rest unset
InitialStore(n) == [i \in 1 .. MaxDenseCap |-> IF i <= n THEN F(i - 1) ELSE 0]

DenseInit ==
    /\ cachePad = 1
    /\ cache = NoCache
    /\ CacheStats = NoStats
    /\ SeqIdle /\ TwinIdle /\ RingIdle /\ ConcIdle /\ BuildIdle /\ SrvIdle
    /\ \E n \in 2 .. MaxDenseInit :
          /\ store = InitialStore(n)
          /\ lastIndex = n - 1
          /\ currentTarget = n - 1
    /\ updating = FALSE
    /\ storeMux = 0
    /\ growers = <<>>
    /\ lookup = [c \in Callers |-> NoLookup]
    /\ lookups = 0

denseFrame == <<cachePad, cache, CacheStats, seqHist, twinHist, ringHist,
                concVars, buildVars, srvVars>>

\* the growth target: max(currentTarget, idx * growthFactor), clamped to the
\* last slot of the store
GrowTarget(idx) ==
    LET want == IF currentTarget > idx * GrowthFactor
                THEN currentTarget ELSE idx * GrowthFactor
    IN  IF want > MaxDenseCap - 1 THEN MaxDenseCap - 1 ELSE want

\* the test made under the lock that ignores the status flag
StartsGrower_Unguarded(idx) ==
    idx > lastIndex /\ lastIndex < MaxDenseCap - 1

\* the test made under the lock: this lookup becomes the one that starts a
\* grow when its index is beyond lastIndex, no grow is in flight and the
\* store is not full
StartsGrower(idx) ==
    idx > lastIndex /\ ~updating /\ lastIndex < MaxDenseCap - 1

\* the on-the-fly recompute: steps additions from the last two values
RECURSIVE OnTheFly(_, _, _)
OnTheFly(prev, cur, steps) ==
    IF steps = 0 THEN cur ELSE OnTheFly(cur, prev + cur, steps - 1)

\* a caller starts a lookup
DenseStart(c, idx) ==
    /\ lookup[c].pc = "idle"
    /\ lookups < MaxLookups
    /\ lookups' = lookups + 1
    /\ lookup' = [lookup EXCEPT ![c] = [NoLookup EXCEPT !.pc = "start",
                                                         !.idx = idx]]
    /\ UNCHANGED <<store, lastIndex, updating, currentTarget, storeMux,
                   growers, denseFrame>>

\* it takes the store's lock
DenseLock(c) ==
    /\ lookup[c].pc = "start"
    /\ storeMux = 0
    /\ storeMux' = c
    /\ lookup' = [lookup EXCEPT ![c].pc = "locked"]
    /\ UNCHANGED <<store, lastIndex, updating, currentTarget, growers,
                   lookups, denseFrame>>

\* under the lock it compares its index with lastIndex, starts the grow task
\* when it is the one to do so, and releases the lock
DenseDecide(c) ==
    /\ lookup[c].pc = "locked"
    /\ storeMux = c
    /\ LET idx == lookup[c].idx IN
       IF idx <= lastIndex
       THEN /\ lookup' = [lookup EXCEPT ![c].pc = "stored"]
            /\ UNCHANGED <<updating, currentTarget, growers>>
       ELSE IF StartsGrower(idx)
       THEN /\ updating' = TRUE
            /\ currentTarget' = GrowTarget(idx)
            /\ growers' = Append(growers, [pc |-> "fill",
                                           at |-> lastIndex + 1,
                                           target |-> GrowTarget(idx)])
            /\ lookup' = [lookup EXCEPT ![c].pc = "compute",
                                        ![c].from = lastIndex + 1,
                                        ![c].grew = TRUE]
       ELSE /\ lookup' = [lookup EXCEPT ![c].pc = "compute",
                                        ![c].from = lastIndex + 1]
            /\ UNCHANGED <<updating, currentTarget, growers>>
    /\ storeMux' = 0
    /\ UNCHANGED <<store, lastIndex, lookups, denseFrame>>

\* it returns the stored value, or the one it recomputes from lastIndex + 1
DenseReturn(c) ==
    /\ lookup[c].pc \in {"stored", "compute"}
    /\ LET l == lookup[c]
           v == IF l.pc = "stored" THEN store[l.idx + 1]
                ELSE OnTheFly(store[l.from - 1], store[l.from],
                              l.idx - (l.from - 1))
       IN  lookup' = [lookup EXCEPT ![c].pc = "idle", ![c].val = v]
    /\ UNCHANGED <<store, lastIndex, updating, currentTarget, storeMux,
                   growers, lookups, denseFrame>>

\* the grow task writes the next value above the filled part
GrowStep(k) ==
    /\ k \in 1 .. Len(growers)
    /\ growers[k].pc = "fill"
    /\ growers[k].at <= growers[k].target
    /\ store' = [store EXCEPT ![growers[k].at + 1] =
                                  store[growers[k].at] + store[growers[k].at - 1]]
    /\ growers' = [growers EXCEPT ![k].at = growers[k].at + 1]
    /\ UNCHANGED <<lastIndex, updating, currentTarget, storeMux, lookup,
                   lookups, denseFrame>>

\* having filled up to its target, it takes the lock
GrowLock(k) ==
    /\ k \in 1 .. Len(growers)
    /\ growers[k].pc = "fill"
    /\ growers[k].at > growers[k].target
    /\ storeMux = 0
    /\ storeMux' = -1
    /\ growers' = [growers EXCEPT ![k].pc = "publish"]
    /\ UNCHANGED <<store, lastIndex, updating, currentTarget, lookup, lookups,
                   denseFrame>>

\* under the lock it advances lastIndex, clears the flag, and ends
GrowPublish(k) ==
    /\ k \in 1 .. Len(growers)
    /\ growers[k].pc = "publish"
    /\ lastIndex' = growers[k].target
    /\ updating' = FALSE
    /\ storeMux' = 0
    /\ growers' = SubSeq(growers, 1, k - 1) \o SubSeq(growers, k + 1, Len(growers))
    /\ UNCHANGED <<store, currentTarget, lookup, lookups, denseFrame>>

DenseNext ==
    \/ \E c \in Callers, idx \in DenseIndex : DenseStart(c, idx)
    \/ \E c \in Callers : DenseLock(c)
    \/ \E c \in Callers : DenseDecide(c)
    \/ \E c \in Callers : DenseReturn(c)
    \/ \E k \in 1 .. NCallers + MaxLookups : GrowStep(k)
    \/ \E k \in 1 .. NCallers + MaxLookups : GrowLock(k)
    \/ \E k \in 1 .. NCallers + MaxLookups : GrowPublish(k)

SpecDense == DenseInit /\ [][DenseNext]_vars

\* ---- claims on sequential use ---------------------------------------------

\* C1: in sequential use over the slot-ring cache, whatever Get calls came
\* before, Get(index) returns F(index), for every index.
C1_GetReturnsFib ==
    last.op = "Get" => last.val = F(last.idx)

\* the same for the indices below the largest one, where no index wraps
GetReturnsFibBelowMax ==
    (last.op = "Get" /\ last.idx < MaxIndex) => last.val = F(last.idx)

\* C4: for every sequence of Get calls the tracker over the LRU backend
\* returns what the tracker over the slot-ring backend returns, and both
\* return F(index).
C4_BackendsAgree ==
    last.op = "Get" => /\ lruLast.val = last.val
                       /\ last.val = F(last.idx)
                       /\ lruLast.val = F(last.idx)

\* C5: two consecutive calls Get(k); Get(k) return the same value and the
\* second one is counted as a direct or a close hit, never as a miss.
C5_SecondGetIsHit ==
    again.is => /\ last.val = again.val
                /\ last.path \in {"direct", "close"}

\* the same for the indices from cachePad up to below the largest one
SecondGetIsHitFromPad ==
    (again.is /\ cachePad <= last.idx /\ last.idx < MaxIndex)
        => /\ last.val = again.val
           /\ last.path \in {"direct", "close"}

\* C6: right after Get(index) or calcFromZero(index) for a non-zero multiple
\* of cachePad, the cache finds index and the pair's first member is F(index).
C6_MultipleIsCached ==
    (last.op \in {"Get", "calcFromZero"} /\ last.idx # 0 /\ last.idx % cachePad = 0)
        => LET e == cacheGet(cache, last.idx)
           IN  e.found /\ e.i = F(last.idx)

\* the same for the indices below the largest one
MultipleIsCachedBelowMax ==
    (last.op \in {"Get", "calcFromZero"} /\ last.idx # 0
        /\ last.idx % cachePad = 0 /\ last.idx < MaxIndex)
        => LET e == cacheGet(cache, last.idx)
           IN  e.found /\ e.i = F(last.idx)

C9_RingGetSeesLastSet ==
    probe.idx # -1 =>
        LET ls == lastSet[probe.idx % cache.size]
        IN  /\ probe.found <=> \/ ls.set /\ ls.idx = probe.idx
                               \/ ~ls.set /\ probe.idx = 0
            /\ (probe.found /\ ls.set) => (probe.i = ls.i /\ probe.j = ls.j)
            /\ (probe.found /\ ~ls.set) => (probe.i = 0 /\ probe.j = 1)

\* a lookup of an index whose slot was last Set for another index
C9_Witness ==
    /\ probe.idx # -1
    /\ ~probe.found
    /\ lastSet[probe.idx % cache.size].set
    /\ lastSet[probe.idx % cache.size].idx # probe.idx

\* ---- claims on concurrent callers -----------------------------------------
Active == {c \in Callers : pc[c] # "idle"}

Asked == {r.idx : r \in results} \cup {loc[c].idx : c \in Active}

\* C2: when all concurrent callers ask for the same index k, every one of
\* them reads the same value from its Get and that value is F(k).
C2_SameIndexSameValue ==
    Cardinality(Asked) <= 1 => \A r \in results : r.val = F(r.idx)

\* C3: all Get calls for one index return the same value, whatever other
\* Get calls run beside them.
C3_FixedIndexFixedValue ==
    \A r1, r2 \in results : r1.idx = r2.idx => r1.val = r2.val

RECURSIVE SumCalls(_)
SumCalls(n) == IF n = 0 THEN 0 ELSE ncalls[n] + SumCalls(n - 1)

NotCounted ==
    {c \in Callers : pc[c] \in {"direct", "probe", "countHit", "countClose", "countMiss"}}

OneMore(st1, st2) ==
    \/ st2 = [st1 EXCEPT !.NDirectHit = @ + 1]
    \/ st2 = [st1 EXCEPT !.NCloseHit = @ + 1]
    \/ st2 = [st1 EXCEPT !.NMiss = @ + 1]

\* C8: every Get adds one to exactly one of the three counters, also among
\* concurrent callers: a step leaves the counters alone or adds one to one of
\* them, a call that returns has counted once, the counters add up to the
\* calls that have counted, and to all calls once every call has returned.
C8_EveryGetCountsOnce ==
    /\ [][CacheStats' = CacheStats \/ OneMore(CacheStats, CacheStats')]_vars
    /\ [](\A c \in Callers : pc[c] = "return" => loc[c].counted = 1)
    /\ [](Total(CacheStats) = SumCalls(NCallers) - Cardinality(NotCounted))
    /\ [](Active = {} => Total(CacheStats) = SumCalls(NCallers))

\* all calls have returned, and there were a miss and a hit among them
C8_Witness ==
    /\ Active = {}
    /\ SumCalls(NCallers) >= 2
    /\ CacheStats.NMiss >= 1
    /\ CacheStats.NCloseHit + CacheStats.NDirectHit >= 1

\* ---- claims on a failing backend ------------------------------------------

\* C10: whichever lookups report an error and whichever writes store nothing,
\* Get(index) returns F(index).
C10_FaultsKeepValue ==
    \A r \in results : r.val = F(r.idx)

\* the same for the indices below the largest one
FaultsKeepValueBelowMax ==
    \A r \in results : r.idx < MaxIndex => r.val = F(r.idx)

\* ---- claims on construction -----------------------------------------------

\* C11: a cache constructor called with a capacity of 0 or less leaves no
\* usable cache (no cache at all, or one whose inner pointer is nil), and no
\* Get is ever served by a tracker built over it
C11_InvalidCapacityServesNoGet ==
    (status # "none" /\ capacity < 1) =>
        /\ cache.kind \in {"none", "nil"}
        /\ status \in {"panic", "error", "exit", "ready"}
        /\ last.op # "Get"

\* a Get was tried on a tracker whose cache came with an error, and panicked
C11_Witness ==
    /\ capacity < 1
    /\ cache.kind = "nil"
    /\ status = "panic"

\* ---- claims on the search for a starting pair -----------------------------
\* the largest index of at most idx that a lookup on c finds, -1 when none
LargestCached(c, idx) ==
    LET held == {j \in 0 .. idx : cacheGet(c, j).found}
    IN  IF held = {} THEN -1 ELSE CHOOSE j \in held : \A k \in held : k <= j

\* the index a call started its recurrence from: 0 is the origin
StartIndex(call) ==
    IF call.path = "close" THEN call.probes[Len(call.probes)] ELSE 0

\* the indices the close-hit search can reach from idx
Window(idx, pad) ==
    {j \in 0 .. idx : \E k \in 0 .. MaxProbes - 1 :
                         j = roundDownToPad(idx, pad) - k * pad}

\* C12: a Get that is not a direct hit starts its recurrence from the largest
\* index of at most the requested one that the cache held before the call,
\* and from the origin only when the cache held none (the pair cached at
\* index 0 is the origin)
C12_StartsFromLargestCached ==
    [][(last'.op = "Get" /\ last'.path # "direct") =>
          LET best == LargestCached(cache, last'.idx)
          IN  /\ best >= 0 => StartIndex(last') = best
              /\ last'.path = "miss" => best <= 0]_vars

\* what holds instead: the start is the largest cached index among the
\* indices the search reaches, and the origin when none of them is cached
StartsFromLargestInWindow ==
    [][(last'.op = "Get" /\ last'.path # "direct") =>
          LET near == {j \in Window(last'.idx, cachePad) :
                          cacheGet(cache, j).found}
          IN  IF near = {} THEN last'.path = "miss"
              ELSE /\ last'.path = "close"
                   /\ StartIndex(last') \in near
                   /\ \A j \in near : j <= StartIndex(last')]_vars

\* ---- claims on the server -------------------------------------------------

\* C13: however /previous, /next and /current requests interleave, the cursor
\* is never above the value it started with plus the number of /next
\* requests executed since
C13_CursorNeverWraps == currentIndex <= start + nexts

\* C14: a start of the process sets the cursor to the index of the last
\* successful backup write when the file yields 4 bytes and to 0 otherwise,
\* over a fresh cache and counters at zero
C14_RestartReseedsCursorOnly ==
    [][boots' # boots =>
          /\ currentIndex' = IF Len(Read(backup)) = BackupLen THEN journaled
                                                               ELSE 0
          /\ cache' = MakeSliceCache(ServerSize)
          /\ CacheStats' = NoStats]_vars

\* a second start has read a cursor above 0 from the file
C14_Witness ==
    /\ boots = 2
    /\ status = "ready"
    /\ journaled > 0
    /\ currentIndex = journaled
    /\ nexts = 0
    /\ CacheStats = NoStats

\* ---- claims on the cached pairs -------------------------------------------
\* every entry a lookup on c finds has the value of its index as first member
FirstMembersHold(c) ==
    \A i \in Index : cacheGet(c, i).found => cacheGet(c, i).i = F(i)

\* C15: in every state and over either backend, an entry that a lookup at
\* index i reports as found has F(i) as its first member
C15_FoundEntryHoldsFib == FirstMembersHold(cache) /\ FirstMembersHold(lruCache)

\* what holds instead: with one caller at a time, the entries of the slot
\* ring hold F of their index
FoundSlotHoldsFib == FirstMembersHold(cache)

\* C16: every pair the tracker has stored in the cache at an index i is
\* (F(i), F(i+1))
C16_StoredPairIsFibAndNext ==
    \A i \in Index :
        (last.op = "Get" /\ cacheGet(cache, i).found) =>
            /\ cacheGet(cache, i).i = F(i)
            /\ cacheGet(cache, i).j = F(i + 1)

\* what holds instead: the second member is the value before F(i), with the
\* origin (0, 1) at index 0
StoredPairIsFibAndPrevious ==
    \A i \in Index :
        cacheGet(cache, i).found =>
            /\ cacheGet(cache, i).i = F(i)
            /\ cacheGet(cache, i).j = IF i = 0 THEN 1 ELSE F(i - 1)

\* ---- claims on the paths of one Get ---------------------------------------
\* the index is one below a multiple of cachePad that is an index itself
BelowMultiple(idx, pad) ==
    idx % pad # 0 /\ (idx + 1) % pad = 0 /\ idx + 1 \in Index

ProbesDescend(call) ==
    call.op = "Get" =>
        LET anchor == roundDownToPad(call.idx, cachePad)
            n == Len(call.probes)
        IN  /\ n <= MaxProbes
            /\ \A k \in 1 .. n :
                  /\ anchor - (k - 1) * cachePad >= 0
                  /\ call.probes[k] = anchor - (k - 1) * cachePad
                  /\ call.probes[k] = 0 => k = n

\* C18: the close-hit search of one Get probes anchor, anchor - pad,
\* anchor - 2 * pad, ... in this order, where anchor is the index rounded
\* down to a multiple of cachePad: at most 10 probes, none after the probe of
\* index 0, none of an index that comes from wrapping below zero; over either
\* backend
C18_ProbesDescendToZero == ProbesDescend(last) /\ ProbesDescend(lruLast)

\* what holds instead: over the slot ring with one caller at a time, an
\* index cached in place of index 0 is probed before index 0
ProbesDescendOnRing == ProbesDescend(last)

\* the multiples of pad above a and up to idx, in increasing order
RECURSIVE MultiplesIn(_, _, _)
MultiplesIn(a, idx, pad) ==
    IF a >= idx THEN <<>>
    ELSE IF (a + 1) % pad = 0 THEN <<a + 1>> \o MultiplesIn(a + 1, idx, pad)
         ELSE MultiplesIn(a + 1, idx, pad)

\* the writes of a call are those of a recompute from its start to its index
WritesFill(call) ==
    /\ \A k \in 1 .. Len(call.writes) : call.writes[k] % cachePad = 0
    /\ call.path = "direct" => call.writes = <<>>
    /\ call.path \in {"close", "miss"} =>
          call.writes = MultiplesIn(StartIndex(call), call.idx, cachePad)

\* C19: every index the tracker writes a pair at is a multiple of cachePad; a
\* recompute from anchor a to the index writes exactly the multiples of
\* cachePad in (a, index], each once and in increasing order; a Get served
\* as a direct hit writes nothing
C19_WritesFillTheGap == last.op = "Get" => WritesFill(last)

\* what holds instead: the same for every index below the largest one
WritesFillTheGapBelowMax ==
    (last.op = "Get" /\ last.idx < MaxIndex) => WritesFill(last)

\* ---- claims on the values handed back -------------------------------------
\* what the big.Int that ref names holds once the cache is c; with one caller
\* at a time basePair holds (0, 1) between calls
DerefIn(ref, c) ==
    IF ref.at = "slot" THEN
        IF ref.f = "i" THEN c.slots[ref.s].i ELSE c.slots[ref.s].j
    ELSE IF ref.at = "base" THEN
        IF ref.f = "i" THEN 0 ELSE 1
    ELSE ref.v

\* C20: the value a Get handed back is not altered by a later call on the
\* tracker: the big.Int still reads as it did when it was returned
C20_ReturnedValueStays ==
    [][last.op = "Get" => DerefIn(last.ref, cache') = last.val]_vars

\* what holds instead: a value that Get did not take from a cache slot stays
OwnValueStays ==
    [][(last.op = "Get" /\ last.ref.at # "slot") =>
          DerefIn(last.ref, cache') = last.val]_vars

\* ---- claims on the arithmetic of indices -----------------------------------

\* C21: no wrap of index + 1 or of pairIdx - 1 changes a result: Get of the
\* largest index returns F of that index, and calcFromPair from pair index 0
\* hands back the second member of the pair it was given for no index
C21_WrapChangesNoResult ==
    /\ (last.op = "Get" /\ last.idx = MaxIndex) => last.val = F(MaxIndex)
    /\ last.op = "calcFromZero" => last.ref # BaseRef("j")

\* m is the largest multiple of pad that is at most idx
LargestMultiple(m, idx, pad) ==
    /\ m % pad = 0
    /\ m <= idx
    /\ idx - m < pad

\* C22: roundDownToPad(idx) is the largest multiple of cachePad that is at
\* most idx, so 0 for idx < cachePad and never above idx; the close-hit
\* search of a Get starts at this index
C22_RoundsDownToMultiple ==
    last.op = "Get" =>
        LET m == roundDownToPad(last.idx, cachePad)
        IN  /\ LargestMultiple(m, last.idx, cachePad)
            /\ last.idx < cachePad => m = 0
            /\ last.probes # <<>> => last.probes[1] = m

\* a search for an index above 0 and below cachePad has started at index 0
C22_Witness ==
    /\ last.op = "Get"
    /\ last.idx > 0
    /\ last.idx < cachePad
    /\ last.probes # <<>>
    /\ last.probes[1] = 0

\* ---- claims on termination -------------------------------------------------

\* C23: a Get ends after at most 10 probes and a recurrence of exactly
\* index - anchor steps, index steps on a miss
C23_GetEndsAfterBoundedWork ==
    last.op = "Get" =>
        /\ Len(last.probes) <= MaxProbes
        /\ last.path = "close" => last.steps = last.idx - StartIndex(last)
        /\ last.path = "miss" => last.steps = last.idx

\* what holds instead: the same for every index below the largest one
GetEndsAfterBoundedWorkBelowMax ==
    (last.op = "Get" /\ last.idx < MaxIndex) =>
        /\ Len(last.probes) <= MaxProbes
        /\ last.path = "close" => last.steps = last.idx - StartIndex(last)
        /\ last.path = "miss" => last.steps = last.idx

\* under concurrent callers scMux is held only between the first and the
\* last write of a Set
LockHeldOnlyInSet == scMux # 0 => pc[scMux] \in {"setJ", "setIdx"}

\* with a fair scheduler every Get that was entered returns
EveryGetReturns == \A c \in Callers : (pc[c] # "idle") ~> (pc[c] = "idle")

\* ---- claims on the counters ------------------------------------------------

\* C24: the counter a Get has incremented matches the way its value was
\* produced: a direct hit hands back a member of a cached pair and no
\* recurrence ran, a close hit hands back a value the recurrence made from
\* the anchor a probe found, a miss one it made from the origin
C24_CounterMatchesPath ==
    \A c \in Callers :
        pc[c] = "return" =>
            /\ loc[c].counted = 1
            /\ loc[c].path = "direct" => loc[c].ret.at = "slot"
            /\ loc[c].path = "close" =>
                  /\ loc[c].ret.at = "val"
                  /\ loc[c].pairIdx = loc[c].closeIndex
            /\ loc[c].path = "miss" => loc[c].ri = BaseRef("i")

\* what holds instead: with one caller at a time and below the largest
\* index, a direct hit runs no step and returns a member of a slot, a close
\* hit returns a value made in at least one step, a miss one made in index
\* steps from the origin (the origin's own member for index 0)
CounterMatchesPathSequential ==
    (last.op = "Get" /\ last.idx < MaxIndex) =>
        /\ Total(last.counted) = 1
        /\ last.path = "direct" =>
              /\ last.counted.NDirectHit = 1
              /\ last.steps = 0 /\ last.ref.at = "slot"
        /\ last.path = "close" =>
              /\ last.counted.NCloseHit = 1
              /\ last.steps > 0 /\ last.ref.at = "val"
        /\ last.path = "miss" =>
              /\ last.counted.NMiss = 1
              /\ last.steps = last.idx
              /\ last.ref.at = IF last.idx = 0 THEN "base" ELSE "val"

\* ---- claims on the capacity of the slot ring -------------------------------
\* the last n indices a call wrote are all found in cache c
LastWritesFound(call, n, c) ==
    \A k \in Len(call.writes) - n + 1 .. Len(call.writes) :
        cacheGet(c, call.writes[k]).found

\* C25: after a recompute that has written at least N multiples of
\* cachePad, where N is the capacity of the slot ring, the N most recently
\* written ones are all found in the cache
C25_RingHoldsLastN ==
    (last.op = "Get" /\ Len(last.writes) >= cache.size) =>
        LastWritesFound(last, cache.size, cache)

RECURSIVE GCD(_, _)
GCD(a, b) == IF b = 0 THEN a ELSE GCD(b, a % b)

\* what holds instead: the ring keeps N / gcd(N, cachePad) of them, the
\* multiples of cachePad using no more slots than that
RingHoldsLastCoprimePart ==
    LET n == cache.size \div GCD(cache.size, cachePad)
    IN  (last.op = "Get" /\ Len(last.writes) >= n) =>
            LastWritesFound(last, n, cache)

\* ---- claims on a store filled at construction -------------------------------

\* C26: after WithInitializedStore(n) on a fresh tracker every entry found
\* at a multiple i of cachePad has F(i) as first member, and every Get that
\* follows returns F of its index
C26_FilledStoreServesFib ==
    status = "filled" =>
        /\ \A i \in Index :
              (i % cachePad = 0 /\ cacheGet(cache, i).found) =>
                  cacheGet(cache, i).i = F(i)
        /\ last.op = "Get" => last.val = F(last.idx)

\* what holds instead: the same for the Get calls below the largest index
FilledStoreServesFibBelowMax ==
    status = "filled" =>
        /\ \A i \in Index :
              (i % cachePad = 0 /\ cacheGet(cache, i).found) =>
                  cacheGet(cache, i).i = F(i)
        /\ (last.op = "Get" /\ last.idx < MaxIndex) => last.val = F(last.idx)

\* ---- claims on the shared base pair ------------------------------------------

\* C27: Get calls that take the from-zero path at the same time do not
\* interfere through basePair: whatever the order of their resets and reads,
\* each copies (0, 1) from it and returns F of its own index
C27_FromZeroCallsKeepApart ==
    /\ \A c \in Callers :
          (loc[c].path = "miss" /\ pc[c] = "loop"
             /\ loc[c].i = 1 /\ loc[c].pairIdx = 0) =>
              (loc[c].n1 = 0 /\ loc[c].n2 = 1)
    /\ \A r \in results : r.path = "miss" => r.val = F(r.idx)

\* what holds instead: the same for the calls below the largest index
FromZeroCallsKeepApartBelowMax ==
    /\ basePair = [i |-> 0, j |-> 1]
    /\ \A c \in Callers :
          (loc[c].path = "miss" /\ pc[c] = "loop"
             /\ loc[c].i = 1 /\ loc[c].pairIdx = 0) =>
              (loc[c].n1 = 0 /\ loc[c].n2 = 1)
    /\ \A r \in results :
          (r.path = "miss" /\ r.idx < MaxIndex) => r.val = F(r.idx)

\* C28: in the growable dense store at most one grow task runs at any time: a
\* lookup whose index is beyond lastIndex while a grow is in flight starts no
\* second one and recomputes from lastIndex + 1, and lastIndex never decreases
C28_OneGrowerAtATime ==
    [][/\ Len(growers') <= 1
       /\ lastIndex' >= lastIndex
       /\ \A c \in Callers :
             (/\ lookup[c].pc = "locked" /\ lookup'[c].pc # "locked"
              /\ lookup[c].idx > lastIndex /\ updating) =>
                 /\ growers' = growers
                 /\ lookup'[c].pc = "compute"
                 /\ lookup'[c].from = lastIndex + 1]_vars

\* a lookup beyond lastIndex has arrived during a grow of the store and
\* recomputes from lastIndex + 1, while the grow task fills the store above it
C28_Witness ==
    \E c \in Callers :
        /\ lookup[c].pc = "compute" /\ ~lookup[c].grew
        /\ lookup[c].idx > lastIndex
        /\ lookup[c].from = lastIndex + 1
        /\ updating /\ Len(growers) = 1
        /\ growers[1].at > lookup[c].from

\* every lookup returns the value of the sequence at its index, and the
\* published part of the store holds the sequence
LookupsReturnFib ==
    /\ \A c \in Callers : lookup[c].val # -1 => lookup[c].val = F(lookup[c].idx)
    /\ \A i \in 0 .. lastIndex : store[i + 1] = F(i)

====
